---- MODULE Spec2Model ----
(***************************************************************************)
(* A model of the lexical scanner of src/lang/scanner.rs: the rule table   *)
(* of token_rules!, the combined alternation pattern, find_matches and     *)
(* tokenize.  A text is a sequence of characters (one-character strings);  *)
(* a process calls tokenize on an input, and its environment may edit the  *)
(* input between two calls.                                                *)
(***************************************************************************)
EXTENDS Integers, Sequences

VARIABLES
    input,          \* the text behind the BufRead handed to tokenize
    tokens,         \* tokenize's local `tokens` when the call ended
    errors,         \* tokenize's local `errors` when the call ended
    result,         \* what the last call returned: None, Ok, Err or Panic
    prev,           \* the result of the call before the last edit of the input
    edit,           \* the last edit of the input: none, insert or remove
    calls,          \* number of tokenize calls made by the process
    compilations    \* number of Regex::new executions made by the process

vars == <<input, tokens, errors, result, prev, edit, calls, compilations>>

----------------------------------------------------------------------------
(* Bounds of the model *)

\* enumerated inputs have at most MaxLen characters
MaxLen == 3
\* a process makes at most MaxCalls calls of tokenize
MaxCalls == 2

----------------------------------------------------------------------------
(* Characters and the character classes of the patterns *)

Upper == <<"A","B","C","D","E","F","G","H","I","J","K","L","M",
           "N","O","P","Q","R","S","T","U","V","W","X","Y","Z">>
Lower == <<"a","b","c","d","e","f","g","h","i","j","k","l","m",
           "n","o","p","q","r","s","t","u","v","w","x","y","z">>

\* the character that matches no rule in the tests (U+00A4, two bytes in UTF-8)
Currency == "¤"

Range(s) == {s[i] : i \in 1..Len(s)}

\* [[:digit:]], [[:alpha:]] and [[:word:]] are ASCII classes
Digit == {"0","1","2","3","4","5","6","7","8","9"}
Alpha == Range(Upper) \cup Range(Lower)
Word  == Alpha \cup Digit \cup {"_"}
\* \S is any character that is not whitespace
Whitespace == {" ", "\t", "\n", "\r"}

IndexOf(s, c) == CHOOSE i \in 1..Len(s) : s[i] = c

\* `c as i64` of a char: its code point
CodePoint(c) ==
    IF c \in Range(Upper) THEN 64 + IndexOf(Upper, c)
    ELSE IF c \in Range(Lower) THEN 96 + IndexOf(Lower, c)
    ELSE IF c = "|" THEN 124
    ELSE IF c = "\n" THEN 10
    ELSE IF c = "_" THEN 95
    ELSE 0

\* number of bytes of a character in a &str
ByteLen(c) == IF c = Currency THEN 2 ELSE 1

RECURSIVE ByteOffset(_, _)
\* byte offset of the p-th character (1-based) of a line: Match::start()
ByteOffset(line, p) ==
    IF p <= 1 THEN 0 ELSE ByteOffset(line, p - 1) + ByteLen(line[p - 1])

RECURSIVE Run(_, _, _)
\* length of the longest run of characters of S in line from p: S* (greedy)
Run(line, p, S) ==
    IF p <= Len(line) /\ line[p] \in S THEN 1 + Run(line, p + 1, S) ELSE 0

At(line, p) == IF p >= 1 /\ p <= Len(line) THEN line[p] ELSE "EOL"

Slice(line, p, n) == SubSeq(line, p, p + n - 1)

----------------------------------------------------------------------------
(* The rule table of token_rules!, in priority order *)

Pattern(n, s)    == [name |-> n, shape |-> s, lit |-> <<>>]
Literal(n, text) == [name |-> n, shape |-> "lit", lit |-> text]

NumberRules ==
    << Pattern("Float", "float"), Pattern("Int", "int"), Pattern("Char", "char") >>

\* ComparatorRules with Less and Greater listed before Leq and Geq
ComparatorRulesLessFirst ==
    << Literal("Equal", <<"=", "=">>), Literal("Neq", <<"!", "=">>),
       Literal("Less", <<"<">>),       Literal("Greater", <<">">>),
       Literal("Leq", <<"<", "=">>),   Literal("Geq", <<">", "=">>) >>

ComparatorRules ==
    << Literal("Equal", <<"=", "=">>), Literal("Neq", <<"!", "=">>),
       Literal("Leq", <<"<", "=">>),   Literal("Geq", <<">", "=">>),
       Literal("Less", <<"<">>),       Literal("Greater", <<">">>) >>

ArithmeticRules ==
    << Literal("Add", <<"+">>), Literal("Sub", <<"-">>), Literal("Mul", <<"*">>),
       Literal("Div", <<"/">>), Literal("Assign", <<"=">>) >>

LogicalRules ==
    << Literal("Not", <<"!">>), Literal("And", <<"&", "&">>),
       Literal("Or", <<"|", "|">>) >>

BitwiseRules ==
    << Literal("Bnot", <<"~">>), Literal("Band", <<"&">>),
       Literal("Bor", <<"|">>),  Literal("Xor", <<"^">>) >>

StructureRules ==
    << Literal("Lambda", <<"\\">>),   Literal("Comma", <<",">>),
       Literal("Period", <<".">>),    Literal("Semicolon", <<";">>),
       Literal("Lpar", <<"(">>),      Literal("Rpar", <<")">>) >>

\* CallRules with Name listed before Call and Builtin
CallRulesNameFirst ==
    << Pattern("Name", "name"), Pattern("Call", "call"),
       Pattern("Builtin", "builtin") >>

CallRules ==
    << Pattern("Call", "call"), Pattern("Builtin", "builtin"),
       Pattern("Name", "name") >>

TokenRules ==
    NumberRules \o ComparatorRules \o ArithmeticRules \o LogicalRules
        \o BitwiseRules \o StructureRules \o CallRules

\* TokenType::from_index: the rule of a 0-based capture index, Error after the last
from_index(index) ==
    IF index + 1 <= Len(TokenRules) THEN TokenRules[index + 1].name ELSE "Error"

----------------------------------------------------------------------------
(* The patterns: the number of characters a rule matches at p, 0 when it   *)
(* does not match there (no pattern matches the empty string)              *)

\* [[:digit:]]*\.[[:digit:]]+
FloatLen(line, p) ==
    LET d == Run(line, p, Digit)
        e == Run(line, p + d + 1, Digit)
    IN  IF At(line, p + d) = "." /\ e >= 1 THEN d + 1 + e ELSE 0

\* [[:digit:]]+
IntLen(line, p) == Run(line, p, Digit)

\* the bracket expression [[[:alpha:]]|\n]: the letters, '|' and newline
CharClass == Alpha \cup {"|", "\n"}

\* '[[[:alpha:]]|\n]'
CharLen(line, p) ==
    IF At(line, p) = "'" /\ At(line, p + 1) \in CharClass /\ At(line, p + 2) = "'"
    THEN 3 ELSE 0

\* a literal pattern such as == or \+
LitLen(lit, line, p) ==
    IF p + Len(lit) - 1 <= Len(line) /\ Slice(line, p, Len(lit)) = lit
    THEN Len(lit) ELSE 0

\* [[:alpha:]][[:word:]]*
NameLen(line, p) ==
    IF At(line, p) \in Alpha THEN 1 + Run(line, p + 1, Word) ELSE 0

\* [[:alpha:]][[:word:]]*\(
CallLen(line, p) ==
    LET n == NameLen(line, p)
    IN  IF n > 0 /\ At(line, p + n) = "(" THEN n + 1 ELSE 0

\* _[[:alpha:]][[:word:]]*\(
BuiltinLen(line, p) ==
    IF At(line, p) = "_" /\ CallLen(line, p + 1) > 0
    THEN 1 + CallLen(line, p + 1) ELSE 0

\* the catch-all group written (\S) instead of (\S+)
CatchAllOne(line, p) ==
    IF p <= Len(line) /\ line[p] \notin Whitespace THEN 1 ELSE 0

\* the catch-all group (\S+)
CatchAllLen(line, p) == Run(line, p, (Range(line) \ Whitespace))

RuleLen(rule, line, p) ==
    CASE rule.shape = "float"   -> FloatLen(line, p)
      [] rule.shape = "int"     -> IntLen(line, p)
      [] rule.shape = "char"    -> CharLen(line, p)
      [] rule.shape = "lit"     -> LitLen(rule.lit, line, p)
      [] rule.shape = "call"    -> CallLen(line, p)
      [] rule.shape = "builtin" -> BuiltinLen(line, p)
      [] rule.shape = "name"    -> NameLen(line, p)

\* number of capture groups of the combined pattern: one per rule and the catch-all
NumGroups == Len(TokenRules) + 1

\* what capture group g (1-based) of the combined pattern matches at p
GroupLen(g, line, p) ==
    IF g <= Len(TokenRules) THEN RuleLen(TokenRules[g], line, p)
    ELSE CatchAllLen(line, p)

NoMatch == [group |-> 0, len |-> 0]

\* the alternation under leftmost-longest matching: the earliest group among
\* those with the longest match at p
AlternationLongest(line, p) ==
    LET G == {g \in 1..NumGroups : GroupLen(g, line, p) > 0}
    IN  IF G = {} THEN NoMatch
        ELSE LET best == CHOOSE g \in G :
                            \A h \in G :
                               \/ GroupLen(h, line, p) < GroupLen(g, line, p)
                               \/ (GroupLen(h, line, p) = GroupLen(g, line, p) /\ g <= h)
             IN  [group |-> best, len |-> GroupLen(best, line, p)]

RECURSIVE FirstGroup(_, _, _)
\* the first capture group from g on that matches at p
FirstGroup(g, line, p) ==
    IF g > NumGroups THEN NoMatch
    ELSE LET n == GroupLen(g, line, p)
         IN  IF n > 0 THEN [group |-> g, len |-> n] ELSE FirstGroup(g + 1, line, p)

\* the combined pattern (rule1)|...|(ruleN)|(\S+) at p: leftmost-first, the
\* first alternative that matches at p is the one that matches
Alternation(line, p) == FirstGroup(1, line, p)

RECURSIVE find_matches_anchored(_, _)
\* find_matches with an anchored search, which stops where no group matches
\* instead of skipping to the next match
find_matches_anchored(line, p) ==
    IF p > Len(line) THEN <<>>
    ELSE LET m == Alternation(line, p)
         IN  IF m.group = 0 THEN <<>>
             ELSE <<[type |-> from_index(m.group - 1), at |-> p, len |-> m.len]>>
                    \o find_matches_anchored(line, p + m.len)

RECURSIVE find_matches(_, _)
\* the disjoint matches of the combined pattern in line from p, left to right,
\* each tagged with the TokenType of its first populated capture group
find_matches(line, p) ==
    IF p > Len(line) THEN <<>>
    ELSE LET m == Alternation(line, p)
         IN  IF m.group = 0 THEN find_matches(line, p + 1)
             ELSE <<[type |-> from_index(m.group - 1), at |-> p, len |-> m.len]>>
                    \o find_matches(line, p + m.len)

----------------------------------------------------------------------------
(* The construction functions of the rules *)

Digits == <<"0","1","2","3","4","5","6","7","8","9">>
DigitVal(c) == IndexOf(Digits, c) - 1

RECURSIVE StripLeadingZeros(_)
StripLeadingZeros(ds) ==
    IF Len(ds) > 0 /\ ds[1] = "0" THEN StripLeadingZeros(Tail(ds)) ELSE ds

RECURSIVE StripTrailingZeros(_)
StripTrailingZeros(ds) ==
    IF Len(ds) > 0 /\ ds[Len(ds)] = "0"
    THEN StripTrailingZeros(SubSeq(ds, 1, Len(ds) - 1)) ELSE ds

\* i64::MAX = 9223372036854775807, as a decimal numeral
I64MaxDigits ==
    <<"9","2","2","3","3","7","2","0","3","6","8","5","4","7","7","5","8","0","7">>

RECURSIVE NumeralLeq(_, _)
\* a <= b for two numerals of the same length
NumeralLeq(a, b) ==
    IF Len(a) = 0 THEN TRUE
    ELSE IF DigitVal(a[1]) < DigitVal(b[1]) THEN TRUE
    ELSE IF DigitVal(a[1]) > DigitVal(b[1]) THEN FALSE
    ELSE NumeralLeq(Tail(a), Tail(b))

ParseOk(v)  == [ok |-> TRUE, value |-> v]
ParseErr    == [ok |-> FALSE, value |-> <<>>]

\* str::parse::<i64> on a run of digits: the value, as its decimal numeral
\* without leading zeros (<<>> is zero), or Err(PosOverflow) above i64::MAX
ParseI64(text) ==
    LET n == StripLeadingZeros(text)
    IN  IF Len(n) < Len(I64MaxDigits) \/ (Len(n) = Len(I64MaxDigits) /\ NumeralLeq(n, I64MaxDigits))
        THEN ParseOk(n) ELSE ParseErr

\* str::parse::<f64> on digits* '.' digits+: never an error; the value, as the
\* numeral of its integer part and of its fraction without insignificant zeros
\* (exact for the short numerals of the model)
ParseF64(text) ==
    LET dot == CHOOSE i \in 1..Len(text) : text[i] = "."
    IN  ParseOk([whole |-> StripLeadingZeros(SubSeq(text, 1, dot - 1)),
                 frac  |-> StripTrailingZeros(SubSeq(text, dot + 1, Len(text)))])

Tok(k, payload) == [kind |-> k, payload |-> payload]

\* the Builtin payload with the leading '_' removed as well
BuiltinPayloadStripped(x) == SubSeq(x, 2, Len(x) - 1)

\* x[..x.len()-1]: the matched text of Builtin without its last character
BuiltinPayload(x) == SubSeq(x, 1, Len(x) - 1)

\* $rule(text): the closure of rule `name` applied to the matched text;
\* ok = FALSE when the closure's unwrap() panics
Construct(name, x) ==
    CASE name = "Float"   -> LET r == ParseF64(x) IN [ok |-> r.ok, token |-> Tok("Float", r.value)]
      [] name = "Int"     -> LET r == ParseI64(x) IN [ok |-> r.ok, token |-> Tok("Int", r.value)]
      [] name = "Char"    -> [ok |-> TRUE, token |-> Tok("Char", CodePoint(Tail(x)[1]))]
      [] name = "Call"    -> [ok |-> TRUE, token |-> Tok("Call", SubSeq(x, 1, Len(x) - 1))]
      [] name = "Builtin" -> [ok |-> TRUE, token |-> Tok("Builtin", BuiltinPayload(x))]
      [] name = "Name"    -> [ok |-> TRUE, token |-> Tok("Name", x)]
      [] OTHER            -> [ok |-> TRUE, token |-> Tok(name, <<>>)]

----------------------------------------------------------------------------
(* BufRead::lines and tokenize *)

TokenPosition(l, p) == [line |-> l, position |-> p]

RECURSIVE SplitLines(_, _)
\* the lines of text from character `from`: each ends at '\n' (dropped, with a
\* '\r' before it) or at the end of the text; off is the number of characters
\* of the text before the line
SplitLines(text, from) ==
    IF from > Len(text) THEN <<>>
    ELSE LET n   == Run(text, from, (Range(text) \ {"\n"}))
             nl  == from + n <= Len(text)
             cr  == nl /\ n > 0 /\ text[from + n - 1] = "\r"
             len == IF cr THEN n - 1 ELSE n
         IN  <<[text |-> Slice(text, from, len), off |-> from - 1]>>
                \o SplitLines(text, from + n + 1)

Lines(text) == SplitLines(text, 1)

NoAcc == [tokens |-> <<>>, errors |-> <<>>, panic |-> FALSE]

\* the body of the inner loop of tokenize for one match of a line
PushMatch(acc, line_num, line, cap) ==
    LET start == ByteOffset(line, cap.at)
        text  == Slice(line, cap.at, cap.len)
    IN  IF acc.panic THEN acc
        ELSE IF cap.type = "Error"
        THEN [acc EXCEPT !.errors =
                 Append(@, [pos |-> TokenPosition(line_num, start), text |-> text])]
        ELSE LET c == Construct(cap.type, text)
             IN  IF c.ok
                 THEN [acc EXCEPT !.tokens =
                          Append(@, [pos |-> TokenPosition(line_num, start), token |-> c.token])]
                 ELSE [acc EXCEPT !.panic = TRUE]

RECURSIVE PushMatches(_, _, _, _)
PushMatches(acc, line_num, line, caps) ==
    IF Len(caps) = 0 THEN acc
    ELSE PushMatches(PushMatch(acc, line_num, line, Head(caps)), line_num, line, Tail(caps))

RECURSIVE ScanLines(_, _, _)
\* the outer loop of tokenize over buf_reader.lines().enumerate(), from the
\* k-th line (1-based; line_num = k - 1)
ScanLines(acc, lines, k) ==
    IF k > Len(lines) THEN acc
    ELSE ScanLines(PushMatches(acc, k - 1, lines[k].text, find_matches(lines[k].text, 1)),
                   lines, k + 1)

NoResult == [kind |-> "None", value |-> <<>>]

\* what tokenize returns from the accumulated lists, or that it panicked
Return(acc) ==
    IF acc.panic THEN [kind |-> "Panic", value |-> <<>>]
    ELSE IF Len(acc.errors) > 0 THEN [kind |-> "Err", value |-> acc.errors]
    ELSE [kind |-> "Ok", value |-> acc.tokens]

\* the count if the pattern were compiled by the first call only
CompileOnce(n) == IF n = 0 THEN 1 ELSE n

\* Regex::new in the body of tokenize: one more compilation per call
CompileCount(n) == n + 1

----------------------------------------------------------------------------
(* The inputs *)

\* the characters of the enumerated inputs
Alphabet == {"1", "a", "_", ".", "(", "'", " ", "\n", Currency}

\* every text of at most n characters of the alphabet
Texts(n) == UNION {[1..k -> Alphabet] : k \in 0..n}

\* the inputs of the tests of the scanner
TestInputs ==
    { <<"\\">>,
      <<"'","A","'">>,
      <<"f"," ","="," ","\\","g"," ","x",".","g","(","g","(","x",")",")">>,
      <<"¤">>,
      <<"e","r","r","o","r"," ","¤">>,
      <<"¤"," ","e","r","r","o","r">> }

\* the literal text of every rule without payload
LiteralInputs == {r.lit : r \in {q \in Range(TokenRules) : q.shape = "lit"}}

\* longer inputs: nested calls, numbers around i64::MAX, a CRLF line end,
\* unrecognized characters before and after valid lexemes
LongInputs ==
    { <<"3",".","1","4">>,
      <<"g","(","g","(","x",")",")">>,
      <<"_","p","r","i","n","t","(">>,
      <<"a","_","1"," ","("," ","b">>,
      <<"9","2","2","3","3","7","2","0","3","6","8","5","4","7","7","5","8","0","7">>,
      <<"9","2","2","3","3","7","2","0","3","6","8","5","4","7","7","5","8","0","8">>,
      <<"0","0","7">>,
      <<"x","¤"," ","¤","y","\n","1","¤">>,
      <<"'","|","'">>,
      <<"a","\r","\n","¤"," ","b">>,
      <<"=","="," ","="," ","¤","¤"," ","'","a">> }

Inputs == Texts(MaxLen) \cup TestInputs \cup LiteralInputs \cup LongInputs

----------------------------------------------------------------------------
(* Where the matches of a text lie in it: a span is the number of          *)
(* characters of the text before the match and before its end              *)

RECURSIVE MatchSpans(_, _)
MatchSpans(off, caps) ==
    IF Len(caps) = 0 THEN <<>>
    ELSE <<[from |-> off + Head(caps).at - 1,
            to   |-> off + Head(caps).at - 1 + Head(caps).len]>>
           \o MatchSpans(off, Tail(caps))

RECURSIVE LineSpans(_, _)
LineSpans(lines, k) ==
    IF k > Len(lines) THEN <<>>
    ELSE MatchSpans(lines[k].off, find_matches(lines[k].text, 1))
           \o LineSpans(lines, k + 1)

Spans(text) == LineSpans(Lines(text), 1)

\* i characters of the text lie before a place between two adjacent matches
Between(sp, i) ==
    \E k \in 1..(Len(sp) - 1) : sp[k].to <= i /\ i <= sp[k + 1].from

----------------------------------------------------------------------------
(* The state machine *)

Init ==
    /\ input \in Inputs
    /\ tokens = <<>>
    /\ errors = <<>>
    /\ result = NoResult
    /\ prev = NoResult
    /\ edit = "none"
    /\ calls = 0
    /\ compilations = 0

\* one call of tokenize on the input, to its return or its panic (a panic
\* ends the process)
Tokenize ==
    /\ calls < MaxCalls
    /\ result.kind # "Panic"
    /\ LET acc == ScanLines(NoAcc, Lines(input), 1)
       IN  /\ tokens' = acc.tokens
           /\ errors' = acc.errors
           /\ result' = Return(acc)
    /\ calls' = calls + 1
    /\ compilations' = CompileCount(compilations)
    /\ UNCHANGED <<input, prev, edit>>

\* the environment inserts a whitespace character between two adjacent tokens
\* of a text that scanned to Ok (one edit of the input in a run)
InsertWhitespace ==
    /\ calls < MaxCalls
    /\ edit = "none"
    /\ result.kind = "Ok"
    /\ LET sp == Spans(input)
       IN  \E i \in {j \in 0..Len(input) : Between(sp, j)}, w \in {" ", "\n"} :
              input' = SubSeq(input, 1, i) \o <<w>> \o SubSeq(input, i + 1, Len(input))
    /\ prev' = result
    /\ edit' = "insert"
    /\ result' = NoResult
    /\ tokens' = <<>>
    /\ errors' = <<>>
    /\ UNCHANGED <<calls, compilations>>

\* the environment removes a whitespace character that lies between two
\* adjacent tokens of a text that scanned to Ok (one edit of the input in a run)
RemoveWhitespace ==
    /\ calls < MaxCalls
    /\ edit = "none"
    /\ result.kind = "Ok"
    /\ LET sp == Spans(input)
       IN  \E j \in {i \in 1..Len(input) : Between(sp, i - 1) /\ Between(sp, i)} :
              /\ input[j] \in Whitespace
              /\ input' = SubSeq(input, 1, j - 1) \o SubSeq(input, j + 1, Len(input))
    /\ prev' = result
    /\ edit' = "remove"
    /\ result' = NoResult
    /\ tokens' = <<>>
    /\ errors' = <<>>
    /\ UNCHANGED <<calls, compilations>>

Next == Tokenize \/ InsertWhitespace \/ RemoveWhitespace

Spec == Init /\ [][Next]_vars

----------------------------------------------------------------------------
(* Reading a result against the input *)

\* the text of the line an entry of tokens or errors lies on
LineOf(e) == Lines(input)[e.pos.line + 1].text

\* the 1-based character index of an entry in its line, from its byte offset
CharIndex(e) ==
    CHOOSE p \in 1..(Len(LineOf(e)) + 1) : ByteOffset(LineOf(e), p) = e.pos.position

RuleIndex(name) == CHOOSE g \in 1..Len(TokenRules) : TokenRules[g].name = name

\* some rule of the table matches at p
SomeRuleMatches(line, p) ==
    \E g \in 1..Len(TokenRules) : RuleLen(TokenRules[g], line, p) > 0

IsIdentifier(s) ==
    /\ Len(s) >= 1
    /\ s[1] \in Alpha
    /\ \A i \in 2..Len(s) : s[i] \in Word

\* '_' + identifier + '('
IsBuiltinText(s) ==
    /\ Len(s) >= 3
    /\ s[1] = "_"
    /\ s[Len(s)] = "("
    /\ IsIdentifier(SubSeq(s, 2, Len(s) - 1))

\* digits '.' digits, the leading digits optional
IsFloatText(s) ==
    \E d \in 1..(Len(s) - 1) :
        /\ s[d] = "."
        /\ \A i \in 1..Len(s) : i # d => s[i] \in Digit

\* the same token values in the same order, whatever the positions
SameValues(a, b) ==
    /\ Len(a) = Len(b)
    /\ \A i \in 1..Len(a) :
          /\ a[i].token.kind = b[i].token.kind
          /\ a[i].token.payload = b[i].token.payload

Returned == result.kind # "None"

OneTokenAtOrigin(tok) ==
    /\ result.kind = "Ok"
    /\ Len(result.value) = 1
    /\ result.value[1].pos = TokenPosition(0, 0)
    /\ result.value[1].token.kind = tok.kind
    /\ result.value[1].token.payload = tok.payload

----------------------------------------------------------------------------
(* C1 *)

\* the catch-all group produces a match on some line of the input
CatchAllOccurs ==
    \E k \in 1..Len(Lines(input)) :
        LET caps == find_matches(Lines(input)[k].text, 1)
        IN  \E i \in 1..Len(caps) : caps[i].type = "Error"

\* C1: every call of tokenize returns Err exactly when a catch-all match occurred
\* on some line and Ok otherwise; Err carries the error entries only and Ok the
\* tokens only.
C1_ErrIffCatchAll ==
    Returned =>
        IF CatchAllOccurs
        THEN result.kind = "Err" /\ result.value = errors /\ Len(errors) > 0
        ELSE result.kind = "Ok" /\ result.value = tokens

----------------------------------------------------------------------------
(* C2 *)

\* an entry of the error list is a whole maximal run of non-whitespace
\* characters of its line: whitespace or the line's end on both sides
IsMaximalRun(e) ==
    LET line == LineOf(e)
        p    == CharIndex(e)
    IN  /\ p = 1 \/ line[p - 1] \in Whitespace
        /\ At(line, p + Len(e.text)) \in Whitespace \cup {"EOL"}
        /\ \A i \in 1..Len(e.text) : e.text[i] \notin Whitespace

\* C2 as stated: every entry of a returned Err list carries a maximal run of
\* non-whitespace characters as its raw text, one entry per run.
C2_EntriesAreMaximalRuns ==
    result.kind = "Err" =>
        \A i \in 1..Len(result.value) : IsMaximalRun(result.value[i])

\* entry a lies before entry b, top to bottom and left to right
Before(a, b) ==
    \/ a.pos.line < b.pos.line
    \/ (a.pos.line = b.pos.line /\ a.pos.position + Len(a.text) <= b.pos.position)

\* C2 amended: every entry of a returned Err list starts where no rule matches
\* and carries the text from there to the next whitespace or the line's end (so
\* at most one entry per whitespace-delimited run; a token that ends right before
\* it is not part of it); the entries come top to bottom and left to right, and
\* every character that occurs in no rule's pattern lies in one of them.
C2_ErrorEntries ==
    result.kind = "Err" =>
        /\ \A i \in 1..Len(result.value) :
              LET e    == result.value[i]
                  line == LineOf(e)
                  p    == CharIndex(e)
              IN  /\ Len(e.text) >= 1
                  /\ e.text = Slice(line, p, Len(e.text))
                  /\ \A j \in 1..Len(e.text) : e.text[j] \notin Whitespace
                  /\ At(line, p + Len(e.text)) \in Whitespace \cup {"EOL"}
                  /\ ~SomeRuleMatches(line, p)
        /\ \A i \in 1..(Len(result.value) - 1) :
              Before(result.value[i], result.value[i + 1])
        /\ \A k \in 1..Len(Lines(input)) :
              \A q \in 1..Len(Lines(input)[k].text) :
                  Lines(input)[k].text[q] = Currency =>
                      \E i \in 1..Len(result.value) :
                          /\ result.value[i].pos.line = k - 1
                          /\ CharIndex(result.value[i]) <= q
                          /\ q < CharIndex(result.value[i]) + Len(result.value[i].text)

\* an Err list of two entries from an input that also held tokens, one entry
\* starting right after a token
C2_Witness ==
    /\ result.kind = "Err"
    /\ Len(result.value) >= 2
    /\ Len(tokens) >= 1
    /\ \E i \in 1..Len(result.value) : ~IsMaximalRun(result.value[i])

----------------------------------------------------------------------------
(* C3 *)

\* C3: in every Ok result no Name token is directly followed by '(' in its line
\* (so never by an Lpar token that starts where it ends), and every Call token
\* stands for its payload, an identifier, directly followed by '('.
C3_IdentifierBeforeLparIsCall ==
    result.kind = "Ok" =>
        \A i \in 1..Len(result.value) :
            LET t    == result.value[i]
                line == LineOf(t)
                p    == CharIndex(t)
            IN  /\ t.token.kind = "Name" =>
                      /\ At(line, p + Len(t.token.payload)) # "("
                      /\ \A j \in 1..Len(result.value) :
                            (result.value[j].token.kind = "Lpar"
                                /\ result.value[j].pos.line = t.pos.line)
                            => result.value[j].pos.position
                                   # t.pos.position + Len(t.token.payload)
                /\ t.token.kind = "Call" =>
                      /\ IsIdentifier(t.token.payload)
                      /\ Slice(line, p, Len(t.token.payload) + 1)
                             = t.token.payload \o <<"(">>

\* an Ok result with a Call token
C3_Witness ==
    /\ result.kind = "Ok"
    /\ \E i \in 1..Len(result.value) : result.value[i].token.kind = "Call"

----------------------------------------------------------------------------
(* C4 *)

\* the call after an edit of an input that scanned to Ok returns Ok with the
\* same token values
EditKeepsValues ==
    (prev.kind = "Ok" /\ Returned) =>
        (result.kind = "Ok" /\ SameValues(prev.value, result.value))

\* C4 as stated: inserting or removing whitespace between two adjacent tokens
\* of an input that scans to Ok yields Ok with the same token values.
C4_WhitespaceInsensitive ==
    edit \in {"insert", "remove"} => EditKeepsValues

\* C4 amended: inserting whitespace between two adjacent tokens of an input
\* that scans to Ok yields Ok with the same token values (removing whitespace
\* may merge the two tokens into other ones).
C4_InsertKeepsValues ==
    edit = "insert" => EditKeepsValues

\* whitespace was inserted between two tokens that touched, and the call after
\* it returned tokens at other positions
C4_Witness ==
    /\ edit = "insert"
    /\ prev.kind = "Ok"
    /\ result.kind = "Ok"
    /\ Len(result.value) >= 2
    /\ \E i \in 1..Len(result.value) : result.value[i].pos # prev.value[i].pos

----------------------------------------------------------------------------
(* C5 *)

\* C5 as stated: for every text '_' + identifier + '(' tokenize yields a Builtin
\* token whose payload is the identifier, without the '_' and without the '('.
C5_PayloadWithoutUnderscore ==
    (IsBuiltinText(input) /\ Returned) =>
        OneTokenAtOrigin(Tok("Builtin", SubSeq(input, 2, Len(input) - 1)))

\* C5 amended: for every text '_' + identifier + '(' tokenize yields a Builtin
\* token whose payload is the text without the '(': the '_' stays in the payload.
C5_PayloadKeepsUnderscore ==
    (IsBuiltinText(input) /\ Returned) =>
        OneTokenAtOrigin(Tok("Builtin", SubSeq(input, 1, Len(input) - 1)))

\* a text '_' + identifier + '(' was scanned
C5_Witness ==
    /\ IsBuiltinText(input)
    /\ result.kind = "Ok"
    /\ result.value[1].token.kind = "Builtin"

----------------------------------------------------------------------------
(* C6 *)

\* the rule of a token is the first rule of the table that matches where the
\* token starts
FirstMatchingRule(t) ==
    LET line == LineOf(t)
        p    == CharIndex(t)
        k    == RuleIndex(t.token.kind)
    IN  /\ RuleLen(TokenRules[k], line, p) > 0
        /\ \A g \in 1..(k - 1) : RuleLen(TokenRules[g], line, p) = 0

\* C6: every token comes from the first listed rule that matches where it
\* starts, whatever the lengths of the matches; an error entry starts only where
\* no rule matches; a text digits '.' digits yields exactly one Float token.
C6_FirstRuleWins ==
    Returned =>
        /\ \A i \in 1..Len(tokens) : FirstMatchingRule(tokens[i])
        /\ \A i \in 1..Len(errors) :
              ~SomeRuleMatches(LineOf(errors[i]), CharIndex(errors[i]))
        /\ IsFloatText(input) =>
              /\ result.kind = "Ok"
              /\ Len(result.value) = 1
              /\ result.value[1].token.kind = "Float"
              /\ result.value[1].pos = TokenPosition(0, 0)

\* a token was produced where the catch-all group, listed last, has a longer
\* match than the token's rule
C6_Witness ==
    /\ Returned
    /\ \E i \in 1..Len(tokens) :
          CatchAllLen(LineOf(tokens[i]), CharIndex(tokens[i]))
              > RuleLen(TokenRules[RuleIndex(tokens[i].token.kind)],
                        LineOf(tokens[i]), CharIndex(tokens[i]))

----------------------------------------------------------------------------
(* C7 *)

\* the kinds of token without payload
PayloadFree ==
    {"Equal", "Neq", "Leq", "Geq", "Less", "Greater", "Add", "Sub", "Mul", "Div",
     "Assign", "Not", "And", "Or", "Bnot", "Band", "Bor", "Xor", "Lambda",
     "Comma", "Period", "Semicolon", "Lpar", "Rpar"}

\* C7: the literal text of every rule without payload, as the whole input,
\* scans to Ok with exactly one token, of that rule's kind, at line 0 and
\* position 0.
C7_LiteralScansToItsToken ==
    /\ {TokenRules[g].name : g \in {h \in 1..Len(TokenRules) : TokenRules[h].shape = "lit"}}
          = PayloadFree
    /\ \A g \in 1..Len(TokenRules) :
          (TokenRules[g].shape = "lit" /\ input = TokenRules[g].lit /\ Returned)
              => OneTokenAtOrigin(Tok(TokenRules[g].name, <<>>))

\* the literal of a rule whose first character is a later rule's literal was scanned
C7_Witness ==
    /\ input = <<"<", "=">>
    /\ result.kind = "Ok"

----------------------------------------------------------------------------
(* C8 *)

\* C8: a Char token is produced only for a quoted letter or newline, and its
\* payload is the code point of the quoted character.
C8_CharIsLetterOrNewline ==
    Returned =>
        \A i \in 1..Len(tokens) :
            tokens[i].token.kind = "Char" =>
                LET c == At(LineOf(tokens[i]), CharIndex(tokens[i]) + 1)
                IN  /\ c \in Alpha \cup {"\n"}
                    /\ tokens[i].token.payload = CodePoint(c)

----------------------------------------------------------------------------
(* C9 *)

\* C9: no construction function fails on a text its rule matches: no call of
\* tokenize panics.
C9_ConstructorsTotal == result.kind # "Panic"

----------------------------------------------------------------------------
(* C10 *)

\* C10 as stated: the pattern is compiled once however many calls are made.
C10_CompiledOnce == calls >= 1 => compilations = 1

\* C10 amended: the pattern is compiled once in every call of tokenize: the
\* number of compilations is the number of calls.
C10_CompiledPerCall == compilations = calls

\* a second call of tokenize was made
C10_Witness == calls >= 2 /\ compilations >= 2

====
